---- MODULE Spec2Model ----
(***************************************************************************)
(* A model of test-similarities.py: the SimHash fingerprint, the Hamming   *)
(* and Jaccard similarities, and the sampling evaluator with its report.   *)
(*                                                                         *)
(* Representation.                                                         *)
(*  - A text is a sequence of code points (ord(char)).                     *)
(*  - A 32-bit hash value is the record [hi, lo] of its two 16-bit halves  *)
(*    (value = hi * 2^16 + lo), so that arithmetic mod 2^32 stays exact.   *)
(*  - A Python int used as a bit vector (a fingerprint) is the set of the  *)
(*    positions of its 1 bits: 0 is {}, (x | (1 << i)) is x \cup {i},      *)
(*    (x ^ y) is the symmetric difference, (x >> 1) shifts every position  *)
(*    down by one and drops position 0, (x & 1) is 1 iff 0 is in the set.  *)
(*  - A float score is the exact fraction [num, den] the code divides;     *)
(*    for the scores that arise (den <= 64, and the literals k/10) float   *)
(*    comparison agrees with comparison of the fractions.                  *)
(***************************************************************************)
EXTENDS Integers, Sequences, FiniteSets, TLC

VARIABLES
    \* ---- calls of the pure functions (FnSpec) ----
    text1, text2,   \* the two input texts
    fpc,            \* "ready" before the call, "returned" after it
    call,           \* the record of the call made: function, arguments, result
    \* ---- the evaluator run (Spec) ----
    vault_exists,   \* test_vault_dir.exists()
    vault,          \* the *.md files of the vault directory, a sequence
    num_samples,    \* the sample count handed to analyze_test_corpus
    pc,             \* position of main / analyze_test_corpus / print_statistics
    all_files,      \* analyze_test_corpus: list(test_vault_dir.glob("*.md"))
    i,              \* the loop variable of the sampling loop
    results,        \* None, or the record of the three views
    method,         \* print_statistics: index of the method being reported
    report,         \* print_statistics: what has been printed so far
    fault,          \* "none", or the exception that ended the process
    printed,        \* the last diagnostic line printed by main / the evaluator
    draws, reads, simCalls, skipped   \* history counters of the sampling loop

fnvars == <<text1, text2, fpc, call>>
evvars == <<vault_exists, vault, num_samples, pc, all_files, i, results,
            method, report, fault, printed, draws, reads, simCalls, skipped>>
vars == <<text1, text2, fpc, call, vault_exists, vault, num_samples, pc,
          all_files, i, results, method, report, fault, printed,
          draws, reads, simCalls, skipped>>

----------------------------------------------------------------------------
\* Bounds of the model.

\* longest first input text
MaxLen1 == 5
\* longest second input text
MaxLen2 == 1
\* largest sample count of an evaluator run
MaxSamples == 3

\* Code points used to build texts: 'a', 'B' and the non-word character '!'.
Alphabet == {97, 66, 33}

RECURSIVE SeqsUpTo(_, _)
SeqsUpTo(S, n) ==
    IF n = 0 THEN {<<>>}
    ELSE LET shorter == SeqsUpTo(S, n - 1)
         IN  shorter \cup {Append(s, c) : s \in shorter, c \in S}

\* Widths a fingerprint is asked for.
Widths == {1, 32, 33, 64}

----------------------------------------------------------------------------
\* Characters and tokenization.

\* str.lower() on the ASCII range.
lower(c) == IF c >= 65 /\ c <= 90 THEN c + 32 ELSE c

\* The regex class \w on the ASCII range: letters, digits, underscore.
IsWordChar(c) ==
    \/ c >= 48 /\ c <= 57
    \/ c >= 65 /\ c <= 90
    \/ c >= 97 /\ c <= 122
    \/ c = 95

LowerText(s) == [k \in 1..Len(s) |-> lower(s[k])]

\* re.findall(r'\b\w+\b', s): the maximal runs of word characters, in order.
RECURSIVE findall_from(_, _, _, _)
findall_from(s, k, cur, out) ==
    IF k > Len(s)
    THEN IF cur = <<>> THEN out ELSE Append(out, cur)
    ELSE IF IsWordChar(s[k])
         THEN findall_from(s, k + 1, Append(cur, s[k]), out)
         ELSE findall_from(s, k + 1, <<>>,
                           IF cur = <<>> THEN out ELSE Append(out, cur))

findall(s) == findall_from(s, 1, <<>>, <<>>)

\* re.findall(r'\b\w+\b', text.lower())
Tokenize(text) == findall(LowerText(text))

----------------------------------------------------------------------------
\* FNV-1a, 32 bits.

TwoTo16 == 65536

RECURSIVE BitXor(_, _)
BitXor(a, b) ==
    IF a = 0 THEN b
    ELSE IF b = 0 THEN a
    ELSE ((a + b) % 2) + 2 * BitXor(a \div 2, b \div 2)

\* 2166136261 = 0x811C9DC5
FnvOffsetHi == 33052
FnvOffsetLo == 40389
\* 16777619 = 0x01000193
FnvPrimeHi == 256
FnvPrimeLo == 403

\* hash_val ^= ord(char); hash_val = (hash_val * 16777619) % (2**32)
FnvStep(h, c) ==
    LET xhi == BitXor(h.hi, c \div TwoTo16)
        xlo == BitXor(h.lo, c % TwoTo16)
        p   == xlo * FnvPrimeLo
    IN  [hi |-> (xhi * FnvPrimeLo + xlo * FnvPrimeHi + (p \div TwoTo16)) % TwoTo16,
         lo |-> p % TwoTo16]

RECURSIVE hash_from(_, _, _)
hash_from(s, k, h) ==
    IF k > Len(s) THEN h ELSE hash_from(s, k + 1, FnvStep(h, s[k]))

hash_string(s) == hash_from(s, 1, [hi |-> FnvOffsetHi, lo |-> FnvOffsetLo])

RECURSIVE Pow2(_)
Pow2(n) == IF n = 0 THEN 1 ELSE 2 * Pow2(n - 1)

\* (h >> k) & 1 for 0 <= k < 32
HashBit(h, k) ==
    IF k < 16 THEN (h.lo \div Pow2(k)) % 2 ELSE (h.hi \div Pow2(k - 16)) % 2

----------------------------------------------------------------------------
\* simhash_hash

\* bits=64, the default width of simhash_hash
DefaultBits == 64

\* Vote reading bit b of the 32-bit hash, (word_hash >> b) & 1, without the
\* wrap to b % 32: the bits from 32 up read 0.
Vote_NoWrap(v, word_hash, bits) ==
    [b \in 0..(bits - 1) |->
        IF b < 32 /\ HashBit(word_hash, b) = 1 THEN v[b] + 1 ELSE v[b] - 1]

\* One token's votes, lines 97-102: v[b] += 1 if bit (b % 32) of the token's
\* hash is set, else v[b] -= 1.
Vote(v, word_hash, bits) ==
    [b \in 0..(bits - 1) |->
        IF HashBit(word_hash, b % 32) = 1 THEN v[b] + 1 ELSE v[b] - 1]

RECURSIVE vote_from(_, _, _, _)
vote_from(words, k, v, bits) ==
    IF k > Len(words) THEN v
    ELSE vote_from(words, k + 1, Vote(v, hash_string(words[k]), bits), bits)

\* FinalHash with the tie resolved to 1 (v[b] >= 0 for v[b] > 0).
FinalHash_TieSetsBit(v, bits) == {b \in 0..(bits - 1) : v[b] >= 0}

\* Lines 105-108: simhash |= (1 << b) for every b with v[b] > 0.
FinalHash(v, bits) == {b \in 0..(bits - 1) : v[b] > 0}

simhash_hash(text, bits) ==
    IF text = <<>> THEN {}
    ELSE LET words == Tokenize(text)
             v0    == [b \in 0..(bits - 1) |-> 0]
         IN  FinalHash(vote_from(words, 1, v0, bits), bits)

----------------------------------------------------------------------------
\* hamming_distance, simhash_similarity, compute_simple_similarity

\* xor = hash1 ^ hash2
IntXor(x, y) == (x \ y) \cup (y \ x)

\* while xor: distance += xor & 1; xor >>= 1
RECURSIVE count_bits(_, _)
count_bits(xor, distance) ==
    IF xor = {} THEN distance
    ELSE count_bits({b - 1 : b \in xor \ {0}},
                    distance + (IF 0 \in xor THEN 1 ELSE 0))

hamming_distance(hash1, hash2) == count_bits(IntXor(hash1, hash2), 0)

\* the divisor of line 127
SimilarityBits == 64

\* simhash_similarity dividing by 32, the width of the token hash.
simhash_similarity_Div32(t1, t2) ==
    LET distance == hamming_distance(simhash_hash(t1, DefaultBits),
                                     simhash_hash(t2, DefaultBits))
    IN  [num |-> 32 - distance, den |-> 32]

\* 1 - (distance / 64), as the fraction (64 - distance) / 64
simhash_similarity(t1, t2) ==
    LET hash1    == simhash_hash(t1, DefaultBits)
        hash2    == simhash_hash(t2, DefaultBits)
        distance == hamming_distance(hash1, hash2)
    IN  [num |-> SimilarityBits - distance, den |-> SimilarityBits]

\* the float 0.0
Zero == [num |-> 0, den |-> 1]

SetOf(seq) == {seq[k] : k \in 1..Len(seq)}

\* compute_simple_similarity with the union taken as len(words1) + len(words2).
compute_simple_similarity_SumUnion(t1, t2) ==
    LET words1 == SetOf(Tokenize(t1))
        words2 == SetOf(Tokenize(t2))
    IN  IF t1 = <<>> \/ t2 = <<>> \/ words1 = {} \/ words2 = {} THEN Zero
        ELSE [num |-> Cardinality(words1 \cap words2),
              den |-> Cardinality(words1) + Cardinality(words2)]

compute_simple_similarity(t1, t2) ==
    IF t1 = <<>> \/ t2 = <<>> THEN Zero
    ELSE LET words1 == SetOf(Tokenize(t1))
             words2 == SetOf(Tokenize(t2))
             intersection == Cardinality(words1 \cap words2)
             union == Cardinality(words1 \cup words2)
         IN  IF words1 = {} \/ words2 = {} THEN Zero
             ELSE IF union > 0 THEN [num |-> intersection, den |-> union]
             ELSE Zero

\* Comparisons of scores (fractions with positive denominators).
FracEq(x, y) == x.num * y.den = y.num * x.den
FracLeq(x, y) == x.num * y.den <= y.num * x.den
FracLt(x, y) == x.num * y.den < y.num * x.den
One == [num |-> 1, den |-> 1]

----------------------------------------------------------------------------
\* Idle values of the variables a specification does not use.

\* The value None (what analyze_test_corpus returns at line 139, and the
\* value of results before the call).
None == [none |-> TRUE]

EvIdle ==
    /\ vault_exists = FALSE /\ vault = <<>> /\ num_samples = 0
    /\ pc = "idle" /\ all_files = <<>> /\ i = 0 /\ results = None
    /\ method = 0 /\ report = <<>> /\ fault = "none" /\ printed = "none"
    /\ draws = 0 /\ reads = 0 /\ simCalls = 0 /\ skipped = 0

FnIdle ==
    /\ text1 = <<>> /\ text2 = <<>> /\ fpc = "idle" /\ call = [fn |-> "none"]

----------------------------------------------------------------------------
\* FnSpec: one call of one of the pure functions on bounded input texts.

FnInit ==
    /\ text1 \in SeqsUpTo(Alphabet, MaxLen1)
    /\ text2 \in SeqsUpTo(Alphabet, MaxLen2)
    /\ fpc = "ready"
    /\ call = [fn |-> "none"]
    /\ EvIdle

\* simhash_hash(text1, bits)
Call_simhash_hash(bits) ==
    /\ fpc = "ready"
    /\ call' = [fn |-> "simhash_hash", text |-> text1, bits |-> bits,
                result |-> simhash_hash(text1, bits)]
    /\ fpc' = "returned"
    /\ UNCHANGED <<text1, text2>>
    /\ UNCHANGED evvars

\* hamming_distance on the fingerprint of text1 made with width bits1 and the
\* fingerprint of text2 made with width bits2. The function has no raise and
\* no return but line 119, and its loop ends for every pair of non-negative
\* ints, so the outcome is always "returned" with the count.
Call_hamming_distance(bits1, bits2) ==
    /\ fpc = "ready"
    /\ LET hash1 == simhash_hash(text1, bits1)
           hash2 == simhash_hash(text2, bits2)
       IN  call' = [fn |-> "hamming_distance", bits1 |-> bits1, bits2 |-> bits2,
                    hash1 |-> hash1, hash2 |-> hash2,
                    outcome |-> "returned",
                    result |-> hamming_distance(hash1, hash2)]
    /\ fpc' = "returned"
    /\ UNCHANGED <<text1, text2>>
    /\ UNCHANGED evvars

\* simhash_similarity(text1, other)
Call_simhash_similarity(other) ==
    /\ fpc = "ready"
    /\ call' = [fn |-> "simhash_similarity", a |-> text1, b |-> other,
                distance |-> hamming_distance(simhash_hash(text1, DefaultBits),
                                              simhash_hash(other, DefaultBits)),
                result |-> simhash_similarity(text1, other)]
    /\ fpc' = "returned"
    /\ UNCHANGED <<text1, text2>>
    /\ UNCHANGED evvars

\* compute_simple_similarity(text1, other)
Call_compute_simple_similarity(other) ==
    /\ fpc = "ready"
    /\ call' = [fn |-> "compute_simple_similarity", a |-> text1, b |-> other,
                result |-> compute_simple_similarity(text1, other)]
    /\ fpc' = "returned"
    /\ UNCHANGED <<text1, text2>>
    /\ UNCHANGED evvars

\* The width pairs compared: equal widths, and the default width against 32.
WidthPairs == {<<64, 64>>, <<64, 32>>}

FnNext ==
    \/ \E bits \in Widths : Call_simhash_hash(bits)
    \/ \E w \in WidthPairs : Call_hamming_distance(w[1], w[2])
    \/ \E other \in {text1, text2} : Call_simhash_similarity(other)
    \/ \E other \in {text1, text2} : Call_compute_simple_similarity(other)

FnSpec == FnInit /\ [][FnNext]_vars

----------------------------------------------------------------------------
\* Properties of the pure functions, checked under FnSpec.

\* The hashes of the tokens of a text, in order.
TokenHashes(text) ==
    LET words == Tokenize(text)
    IN  [k \in 1..Len(words) |-> hash_string(words[k])]

\* How many of the hashes have bit (b mod 32) equal to val.
CountBit(hashes, b, val) ==
    Cardinality({k \in 1..Len(hashes) : HashBit(hashes[k], b % 32) = val})

IsHashCall == fpc = "returned" /\ call.fn = "simhash_hash"

\* C1: simhash_hash returns the integer whose bit b (0 <= b < bits) is 1
\* exactly when strictly more tokens have bit (b mod 32) of their FNV-1a hash
\* set than clear; a tie, and the empty token sequence, give 0; no bit at a
\* position >= bits is set.
C1_MajorityBits ==
    IsHashCall =>
        LET hashes == TokenHashes(call.text)
        IN  /\ \A b \in 0..(call.bits - 1) :
                  (b \in call.result) <=>
                      CountBit(hashes, b, 1) > CountBit(hashes, b, 0)
            /\ \A b \in call.result : b >= 0 /\ b < call.bits
            /\ (hashes = <<>> => call.result = {})

\* A 64-bit fingerprint of two tokens with a tied bit (left 0) and a bit set
\* in the upper half.
C1_Witness ==
    /\ IsHashCall
    /\ call.bits = 64
    /\ LET hashes == TokenHashes(call.text)
       IN  /\ Len(hashes) = 2
           /\ \E b \in 0..63 :
                 /\ CountBit(hashes, b, 1) = 1
                 /\ CountBit(hashes, b, 0) = 1
                 /\ b \notin call.result
    /\ \E b \in 32..63 : b \in call.result

\* A 64-bit fingerprint of three tokens with a bit carried 2 votes to 1.
C1_WitnessMajority ==
    /\ IsHashCall
    /\ call.bits = 64
    /\ LET hashes == TokenHashes(call.text)
       IN  /\ Len(hashes) = 3
           /\ \E b \in 0..63 :
                 /\ CountBit(hashes, b, 1) = 2
                 /\ CountBit(hashes, b, 0) = 1
                 /\ b \in call.result

IsHammingCall == fpc = "returned" /\ call.fn = "hamming_distance"

\* C2: comparing a fingerprint made with width 64 against one made with
\* width 32 ends in the WidthMismatch error outcome, never in a number.
\* (Stated for two fingerprints that are not 0.)
C2_WidthMismatchRaised ==
    (/\ IsHammingCall /\ call.bits1 = 64 /\ call.bits2 = 32
     /\ call.hash1 # {} /\ call.hash2 # {}) =>
        call.outcome = "WidthMismatch"

IsJaccardCall == fpc = "returned" /\ call.fn = "compute_simple_similarity"
IsSimhashCall == fpc = "returned" /\ call.fn = "simhash_similarity"

HasWordChar(text) == \E k \in 1..Len(text) : IsWordChar(text[k])

\* C5 as stated: for every non-empty text t, also one with no word character,
\* simhash_similarity(t, t) == 1.0 and compute_simple_similarity(t, t) == 1.0.
C5_SelfSimilarityAnyText ==
    ((IsJaccardCall \/ IsSimhashCall) /\ call.a = call.b /\ call.a # <<>>) =>
        FracEq(call.result, One)

\* C5 amended: for every non-empty text t, simhash_similarity(t, t) == 1.0;
\* compute_simple_similarity(t, t) == 1.0 when t holds at least one word
\* character and 0.0 when it holds none.
C5_SelfSimilarity ==
    /\ (IsSimhashCall /\ call.a = call.b /\ call.a # <<>>) =>
          FracEq(call.result, One)
    /\ (IsJaccardCall /\ call.a = call.b /\ call.a # <<>>) =>
          IF HasWordChar(call.a) THEN FracEq(call.result, One)
          ELSE FracEq(call.result, Zero)

\* A text of two distinct words and a non-word character compared to itself.
C5_Witness ==
    /\ IsJaccardCall
    /\ call.a = call.b
    /\ Cardinality(SetOf(Tokenize(call.a))) = 2
    /\ \E k \in 1..Len(call.a) : ~IsWordChar(call.a[k])
    /\ FracEq(call.result, One)

\* C8: for every pair of texts, empty ones included, both similarities lie in
\* [0.0, 1.0]; the Hamming distance of the two 64-bit fingerprints lies in
\* 0..64.
C8_ScoresInUnitInterval ==
    /\ (IsJaccardCall \/ IsSimhashCall) =>
          /\ call.result.den > 0
          /\ FracLeq(Zero, call.result)
          /\ FracLeq(call.result, One)
    /\ IsSimhashCall => call.distance >= 0 /\ call.distance <= 64

\* A non-empty text against the empty text, with fingerprints more than 32
\* bits apart.
C8_Witness ==
    /\ IsSimhashCall
    /\ call.a # <<>> /\ call.b = <<>>
    /\ call.distance > 32

----------------------------------------------------------------------------
\* Files of the vault.
\*
\* A file is [name, content, readable]. Its name is the record
\* [stem, number, tail], standing for
\*    stem = "note":           note_<number>_unknown_book_chapter_<tail>.md
\*    stem = "generated_note": generated_note_<number>_<tail>.md
\*    stem = "other":          <tail>.md
\* content is the file's text; readable = FALSE makes open() raise.

\* Tails the group (\d+|xx|conclusion) of line 22 matches.
ChapterTails == {"16", "xx", "conclusion"}
\* Tails the group (\w+) of line 32 matches (followed by ".md").
WordTails == {"fiction", "Fiction", "science", "literature"}

parse_file_info(name) ==
    IF name.stem = "note" /\ name.tail \in ChapterTails
    THEN [type |-> "original", category |-> "literature"]
    ELSE IF name.stem = "generated_note" /\ name.tail \in WordTails
    THEN [type |-> "generated", category |-> name.tail]
    ELSE [type |-> "unknown", category |-> "unknown"]

\* content.split('\n')
RECURSIVE split_from(_, _, _, _)
split_from(s, k, cur, out) ==
    IF k > Len(s) THEN Append(out, cur)
    ELSE IF s[k] = 10 THEN split_from(s, k + 1, <<>>, Append(out, cur))
    ELSE split_from(s, k + 1, Append(cur, s[k]), out)

split_lines(s) == split_from(s, 1, <<>>, <<>>)

startswith(line, prefix) ==
    /\ Len(line) >= Len(prefix)
    /\ \A k \in 1..Len(prefix) : line[k] = prefix[k]

\* '#', 'From:', 'Category:', 'Generated:'
HeaderPrefixes ==
    { <<35>>, <<70, 114, 111, 109, 58>>,
      <<67, 97, 116, 101, 103, 111, 114, 121, 58>>,
      <<71, 101, 110, 101, 114, 97, 116, 101, 100, 58>> }

IsHeaderLine(line) == \E prefix \in HeaderPrefixes : startswith(line, prefix)

\* ' '.join(lines)
RECURSIVE join_from(_, _, _)
join_from(lines, k, out) ==
    IF k > Len(lines) THEN out
    ELSE join_from(lines, k + 1,
                   IF k = 1 THEN lines[k] ELSE out \o <<32>> \o lines[k])

join_space(lines) == join_from(lines, 1, <<>>)

\* str.strip(): the ASCII whitespace characters.
IsSpace(c) == c \in {9, 10, 11, 12, 13, 28, 29, 30, 31, 32}

RECURSIVE lstrip(_)
lstrip(s) == IF s # <<>> /\ IsSpace(Head(s)) THEN lstrip(Tail(s)) ELSE s

RECURSIVE rstrip(_)
rstrip(s) ==
    IF s # <<>> /\ IsSpace(s[Len(s)]) THEN rstrip(SubSeq(s, 1, Len(s) - 1)) ELSE s

strip(s) == rstrip(lstrip(s))

read_file_content(file) ==
    IF ~file.readable THEN <<>>
    ELSE LET lines == split_lines(file.content)
             clean_lines == SelectSeq(lines, LAMBDA line : ~IsHeaderLine(line))
         IN  strip(join_space(clean_lines))

\* The files a vault is drawn from.
\*   1 generated_note_1_fiction.md   "# T\na B"
\*   2 generated_note_2_fiction.md   "From: x\n a!"
\*   3 generated_note_3_Fiction.md   "a B\n"
\*   4 note_4_unknown_book_chapter_xx.md   "# H\nGenerated: 4\n"  (cleans to "")
\*   5 readme.md                     cannot be read
Candidates ==
    << [name |-> [stem |-> "generated_note", number |-> 1, tail |-> "fiction"],
        content |-> <<35, 32, 84, 10, 97, 32, 66>>, readable |-> TRUE],
       [name |-> [stem |-> "generated_note", number |-> 2, tail |-> "fiction"],
        content |-> <<70, 114, 111, 109, 58, 32, 120, 10, 32, 97, 33>>, readable |-> TRUE],
       [name |-> [stem |-> "generated_note", number |-> 3, tail |-> "Fiction"],
        content |-> <<97, 32, 66, 10>>, readable |-> TRUE],
       [name |-> [stem |-> "note", number |-> 4, tail |-> "xx"],
        content |-> <<35, 32, 72, 10, 71, 101, 110, 101, 114, 97, 116, 101, 100, 58, 32, 52, 10>>, readable |-> TRUE],
       [name |-> [stem |-> "other", number |-> 5, tail |-> "readme"],
        content |-> <<97>>, readable |-> FALSE] >>

\* largest number of files in the vault
MaxFiles == 3

\* The members of S (a set of indices) in increasing order.
RECURSIVE Ascending(_)
Ascending(S) ==
    IF S = {} THEN <<>>
    ELSE LET m == CHOOSE x \in S : \A y \in S : x <= y
         IN  <<m>> \o Ascending(S \ {m})

\* The vaults: every choice of at most MaxFiles of the candidate files.
Vaults ==
    { [k \in 1..Cardinality(S) |-> Candidates[Ascending(S)[k]]] :
        S \in {T \in SUBSET (1..Len(Candidates)) : Cardinality(T) <= MaxFiles} }

----------------------------------------------------------------------------
\* analyze_test_corpus

\* The guard of line 137 letting a corpus of one file through.
InsufficientCorpus_OnlyEmpty(files) == Len(files) < 1

\* len(all_files) < 2
InsufficientCorpus(files) == Len(files) < 2

\* Two independent draws (random.choice twice) in place of random.sample.
SamplePairs_WithRepeat(n) == (1..n) \X (1..n)

\* random.sample(all_files, 2): two different positions of the list.
SamplePairs(n) == {d \in (1..n) \X (1..n) : d[1] # d[2]}

\* file_info[filepath], filled at lines 145-148
file_info(file) == parse_file_info(file.name)

\* The test of line 201 comparing the 'type' entries of the two infos.
SameCategory_ByType(info1, info2) == info1.type = info2.type

\* The test of line 201 that sends a pair to the same-category view.
SameCategory(info1, info2) == info1.category = info2.category

EmptyResults ==
    [same_category |-> <<>>, different_category |-> <<>>, all_pairs |-> <<>>]

\* similarity_methods, in the order of the dict
Methods == <<"word_jaccard", "simhash">>

similarities_of(content1, content2) ==
    [word_jaccard |-> compute_simple_similarity(content1, content2),
     simhash |-> simhash_similarity(content1, content2)]

Pair_result(file1, file2, info1, info2, content1, content2) ==
    [file1 |-> file1.name,
     file2 |-> file2.name,
     category1 |-> info1.category,
     category2 |-> info2.category,
     same_category |-> (info1.category = info2.category),
     similarities |-> similarities_of(content1, content2)]

EvInit ==
    /\ vault_exists \in BOOLEAN
    /\ vault \in (IF vault_exists THEN Vaults ELSE {<<>>})
    /\ num_samples \in 0..MaxSamples
    /\ pc = "main"
    /\ all_files = <<>>
    /\ i = 0
    /\ results = None
    /\ method = 0
    /\ report = <<>>
    /\ fault = "none"
    /\ printed = "none"
    /\ draws = 0 /\ reads = 0 /\ simCalls = 0 /\ skipped = 0
    /\ FnIdle

\* main, lines 304-306: without the vault directory main returns at once.
Main_NoVault ==
    /\ pc = "main"
    /\ ~vault_exists
    /\ printed' = "Error: Test vault directory not found!"
    /\ pc' = "exit"
    /\ UNCHANGED <<vault_exists, vault, num_samples, all_files, i, results,
                   method, report, fault, draws, reads, simCalls, skipped>>
    /\ UNCHANGED fnvars

\* main, line 310, and analyze_test_corpus, lines 134-139: the glob, and the
\* return without a value when fewer than 2 files were found.
Analyze_Insufficient ==
    /\ pc = "main"
    /\ vault_exists
    /\ InsufficientCorpus(vault)
    /\ all_files' = vault
    /\ printed' = "Need at least 2 files to compare"
    /\ results' = None
    /\ pc' = "analyzed"
    /\ UNCHANGED <<vault_exists, vault, num_samples, i, method, report, fault,
                   draws, reads, simCalls, skipped>>
    /\ UNCHANGED fnvars

\* analyze_test_corpus, lines 134-166: the glob, file_info and the empty views.
Analyze_Begin ==
    /\ pc = "main"
    /\ vault_exists
    /\ ~InsufficientCorpus(vault)
    /\ all_files' = vault
    /\ results' = EmptyResults
    /\ i' = 0
    /\ pc' = "sampling"
    /\ UNCHANGED <<vault_exists, vault, num_samples, method, report, fault,
                   printed, draws, reads, simCalls, skipped>>
    /\ UNCHANGED fnvars

\* One iteration of the loop of lines 168-204, on the draw d.
Sample_Iteration(d) ==
    /\ pc = "sampling"
    /\ i < num_samples
    /\ LET file1 == all_files[d[1]]
           file2 == all_files[d[2]]
           info1 == file_info(file1)
           info2 == file_info(file2)
           content1 == read_file_content(file1)
           content2 == read_file_content(file2)
           pair_result == Pair_result(file1, file2, info1, info2,
                                      content1, content2)
       IN  /\ draws' = draws + 1
           /\ reads' = reads + 2
           /\ IF content1 = <<>> \/ content2 = <<>>
              THEN /\ skipped' = skipped + 1
                   /\ UNCHANGED <<results, simCalls>>
              ELSE /\ simCalls' = simCalls + Len(Methods)
                   /\ results' =
                        [all_pairs |-> Append(results.all_pairs, pair_result),
                         same_category |->
                            IF SameCategory(info1, info2)
                            THEN Append(results.same_category, pair_result)
                            ELSE results.same_category,
                         different_category |->
                            IF SameCategory(info1, info2)
                            THEN results.different_category
                            ELSE Append(results.different_category, pair_result)]
                   /\ UNCHANGED skipped
    /\ i' = i + 1
    /\ UNCHANGED <<vault_exists, vault, num_samples, pc, all_files, method,
                   report, fault, printed>>
    /\ UNCHANGED fnvars

\* Line 206: the loop is over, the views are returned to main.
Analyze_Return ==
    /\ pc = "sampling"
    /\ i = num_samples
    /\ pc' = "analyzed"
    /\ UNCHANGED <<vault_exists, vault, num_samples, all_files, i, results,
                   method, report, fault, printed, draws, reads, simCalls,
                   skipped>>
    /\ UNCHANGED fnvars

----------------------------------------------------------------------------
\* main after the analysis, print_statistics, save_results

\* [pair['similarities'][method] for pair in view]
Sims(view, m) == [k \in 1..Len(view) |-> view[k].similarities[m]]

\* statistics.stdev(data): raises StatisticsError unless data holds at least
\* two values; otherwise a float (its value is not modelled).
stdev(data) == IF Len(data) < 2 THEN "StatisticsError" ELSE "number"

\* bins = [0.0, 0.1, ..., 1.0]; Bins[k] is bins[k - 1]
Bins == [k \in 1..11 |-> [num |-> k - 1, den |-> 10]]

NumBuckets == Len(Bins) - 1

\* Lines 260-266: the first bucket k with bins[k] <= sim < bins[k + 1]; the
\* last bucket for sim == 1.0 when no bucket took it; else 0 (not counted).
bucket_of(sim) ==
    LET hits == {k \in 1..NumBuckets :
                    FracLeq(Bins[k], sim) /\ FracLt(sim, Bins[k + 1])}
    IN  IF hits # {} THEN CHOOSE k \in hits : \A l \in hits : k <= l
        ELSE IF FracEq(sim, One) THEN NumBuckets
        ELSE 0

\* hist after the loop of lines 259-266
histogram(all_sims) ==
    [k \in 1..NumBuckets |->
        Cardinality({j \in 1..Len(all_sims) : bucket_of(all_sims[j]) = k})]

\* sorted(pairs, key=similarity, reverse=True): descending, equal keys keep
\* their order.
RECURSIVE insert_desc(_, _, _)
insert_desc(sorted, pair, m) ==
    IF sorted = <<>> THEN <<pair>>
    ELSE IF FracLt(Head(sorted).similarities[m], pair.similarities[m])
         THEN <<pair>> \o sorted
         ELSE <<Head(sorted)>> \o insert_desc(Tail(sorted), pair, m)

RECURSIVE sorted_from(_, _, _, _)
sorted_from(pairs, k, out, m) ==
    IF k > Len(pairs) THEN out
    ELSE sorted_from(pairs, k + 1, insert_desc(out, pairs[k], m), m)

sorted_pairs(pairs, m) == sorted_from(pairs, 1, <<>>, m)

\* sorted_pairs[:5]
TopK == 5

top_pairs(pairs, m) ==
    LET sp == sorted_pairs(pairs, m)
    IN  SubSeq(sp, 1, IF Len(sp) < TopK THEN Len(sp) ELSE TopK)

evrest == <<vault_exists, vault, num_samples, all_files, i, results,
            draws, reads, simCalls, skipped>>

\* main, lines 312-314
Main_NoValidPairs ==
    /\ pc = "analyzed"
    /\ (IF results = None THEN TRUE ELSE results.all_pairs = <<>>)
    /\ printed' = "No valid pairs found for analysis"
    /\ pc' = "exit"
    /\ UNCHANGED <<method, report, fault>>
    /\ UNCHANGED evrest
    /\ UNCHANGED fnvars

\* main, line 317: print_statistics is entered, lines 210-225
Main_PrintStatistics ==
    /\ pc = "analyzed"
    /\ results # None
    /\ results.all_pairs # <<>>
    /\ method' = 1
    /\ pc' = "stats_overall"
    /\ UNCHANGED <<report, fault, printed>>
    /\ UNCHANGED evrest
    /\ UNCHANGED fnvars

\* One block of statistics of print_statistics: mean and median are printed,
\* then stdev either raises (the exception is caught nowhere, the process
\* ends) or is printed.
StatsBlock(view_name, next_pc) ==
    LET sims == Sims(results[view_name], Methods[method])
    IN  IF stdev(sims) = "StatisticsError"
        THEN /\ fault' = "StatisticsError"
             /\ pc' = "crashed"
             /\ UNCHANGED <<report, method, printed>>
        ELSE /\ report' = Append(report,
                    [kind |-> "stats", method |-> Methods[method],
                     view |-> view_name, n |-> Len(sims),
                     stdev |-> stdev(sims)])
             /\ pc' = next_pc
             /\ UNCHANGED <<fault, method, printed>>

\* Lines 231-240
Stats_Overall ==
    /\ pc = "stats_overall"
    /\ StatsBlock("all_pairs", "stats_same")
    /\ UNCHANGED evrest
    /\ UNCHANGED fnvars

\* Lines 242-246
Stats_Same ==
    /\ pc = "stats_same"
    /\ IF results.same_category # <<>>
       THEN StatsBlock("same_category", "stats_diff")
       ELSE pc' = "stats_diff" /\ UNCHANGED <<report, fault, method, printed>>
    /\ UNCHANGED evrest
    /\ UNCHANGED fnvars

\* Lines 248-252
Stats_Different ==
    /\ pc = "stats_diff"
    /\ IF results.different_category # <<>>
       THEN StatsBlock("different_category", "histogram")
       ELSE pc' = "histogram" /\ UNCHANGED <<report, fault, method, printed>>
    /\ UNCHANGED evrest
    /\ UNCHANGED fnvars

\* Lines 254-272
Stats_Histogram ==
    /\ pc = "histogram"
    /\ LET all_sims == Sims(results.all_pairs, Methods[method])
           hist == histogram(all_sims)
       IN  report' = Append(report,
                [kind |-> "histogram", method |-> Methods[method],
                 hist |-> hist,
                 percentage |-> [k \in 1..NumBuckets |->
                                    [num |-> hist[k] * 100, den |-> Len(all_sims)]]])
    /\ pc' = "top"
    /\ UNCHANGED <<fault, method, printed>>
    /\ UNCHANGED evrest
    /\ UNCHANGED fnvars

\* Lines 274-284, and the step of the loop of line 225 to the next method
Stats_Top ==
    /\ pc = "top"
    /\ report' = Append(report,
            [kind |-> "top", method |-> Methods[method],
             pairs |-> top_pairs(results.all_pairs, Methods[method])])
    /\ IF method < Len(Methods)
       THEN method' = method + 1 /\ pc' = "stats_overall"
       ELSE method' = method /\ pc' = "save"
    /\ UNCHANGED <<fault, printed>>
    /\ UNCHANGED evrest
    /\ UNCHANGED fnvars

\* main, lines 320-324: save_results and the closing banner
Save_Results ==
    /\ pc = "save"
    /\ printed' = "Analysis complete!"
    /\ pc' = "exit"
    /\ UNCHANGED <<method, report, fault>>
    /\ UNCHANGED evrest
    /\ UNCHANGED fnvars

Next ==
    \/ Main_NoVault
    \/ Analyze_Insufficient
    \/ Analyze_Begin
    \/ \E d \in SamplePairs(Len(all_files)) : Sample_Iteration(d)
    \/ Analyze_Return
    \/ Main_NoValidPairs
    \/ Main_PrintStatistics
    \/ Stats_Overall
    \/ Stats_Same
    \/ Stats_Different
    \/ Stats_Histogram
    \/ Stats_Top
    \/ Save_Results

Spec == EvInit /\ [][Next]_vars

----------------------------------------------------------------------------
\* Properties of the evaluator run, checked under Spec.

\* analyze_test_corpus has returned a results mapping.
SamplingFinished == pc \notin {"main", "sampling"} /\ results # None

\* The run is over: main returned, or an exception ended the process.
RunEnded == pc \in {"exit", "crashed"}

\* The positions of the corpus whose cleaned text is not empty.
NonEmptyDocs(files) ==
    {k \in 1..Len(files) : read_file_content(files[k]) # <<>>}

Views == {"all_pairs", "same_category", "different_category"}

\* C3: a draw skipped for empty cleaned text does not count toward the sample
\* count: with at least two documents of non-empty content in the corpus, a
\* finished run with sample count N holds exactly N pairs in the all-pairs
\* view.
C3_SkippedDrawsNotCounted ==
    (SamplingFinished /\ Cardinality(NonEmptyDocs(all_files)) >= 2) =>
        Len(results.all_pairs) = num_samples

\* C4: over a view of fewer than 2 pairs the standard deviation is reported
\* as "undefined"; the report never ends in a raised fault.
C4_StdevUndefinedBelowTwo ==
    /\ fault = "none"
    /\ \A k \in 1..Len(report) :
          (report[k].kind = "stats" /\ report[k].n < 2) =>
              report[k].stdev = "undefined"

RECURSIVE SumTo(_, _)
SumTo(f, n) == IF n = 0 THEN 0 ELSE f[n] + SumTo(f, n - 1)

HistogramsOf(m) ==
    {k \in 1..Len(report) : report[k].kind = "histogram" /\ report[k].method = m}

\* C6: in every run with N >= 1 valid pairs, for each method, every pair's
\* score is counted in exactly one of the 10 buckets: the bucket counts of the
\* method's histogram add up to N.
C6_HistogramCountsEveryPair ==
    (RunEnded /\ results # None /\ Len(results.all_pairs) >= 1) =>
        \A m \in SetOf(Methods) :
            /\ HistogramsOf(m) # {}
            /\ \A k \in HistogramsOf(m) :
                  SumTo(report[k].hist, NumBuckets) = Len(results.all_pairs)

\* What the histogram code does when it is reached: every histogram in the
\* report adds up to the number of pairs.
HistogramTotals ==
    \A k \in 1..Len(report) :
        report[k].kind = "histogram" =>
            SumTo(report[k].hist, NumBuckets) = Len(results.all_pairs)

\* C7: on a corpus of fewer than 2 documents the evaluator returns the
\* insufficient-corpus outcome (None, after "Need at least 2 files to
\* compare"), an outcome no larger corpus gives, and it returns before any
\* pair is drawn, any content read or any similarity computed.
C7_InsufficientCorpus ==
    (vault_exists /\ pc # "main") =>
        /\ Len(vault) < 2 =>
              /\ results = None
              /\ pc = "analyzed" => printed = "Need at least 2 files to compare"
              /\ draws = 0 /\ reads = 0 /\ simCalls = 0 /\ i = 0
        /\ Len(vault) >= 2 =>
              /\ results # None
              /\ pc = "analyzed" => printed # "Need at least 2 files to compare"

\* A corpus of exactly one document, asked for at least one sample.
C7_Witness ==
    /\ vault_exists /\ Len(vault) = 1 /\ num_samples >= 1
    /\ pc = "analyzed" /\ results = None

\* C9: after every iteration the same-category and different-category views
\* are disjoint and together hold exactly the pairs of the all-pairs view; a
\* pair is in the same-category view iff its two labels are exactly equal.
C9_ViewsPartition ==
    results # None =>
        /\ results.same_category =
              SelectSeq(results.all_pairs, LAMBDA p : p.category1 = p.category2)
        /\ results.different_category =
              SelectSeq(results.all_pairs, LAMBDA p : p.category1 # p.category2)
        /\ SetOf(results.same_category) \cap SetOf(results.different_category) = {}
        /\ Len(results.same_category) + Len(results.different_category)
              = Len(results.all_pairs)
        /\ \A k \in 1..Len(results.all_pairs) :
              results.all_pairs[k].same_category
                  <=> (results.all_pairs[k] \in SetOf(results.same_category))

\* Both views filled, one of them by labels that differ only in case.
C9_Witness ==
    /\ results # None
    /\ Len(results.same_category) >= 1
    /\ Len(results.different_category) >= 2
    /\ \E k \in 1..Len(results.different_category) :
          /\ results.different_category[k].category1 = "fiction"
          /\ results.different_category[k].category2 = "Fiction"

\* C10: the two documents of a drawn pair are different corpus entries: no
\* pair of any view has the same document on both sides.
C10_DistinctDocuments ==
    results # None =>
        \A view \in Views :
            \A k \in 1..Len(results[view]) :
                results[view][k].file1 # results[view][k].file2

\* The same pair drawn in two iterations, and a document drawn with another
\* partner in a third.
C10_Witness ==
    /\ results # None
    /\ \E j, k, l \in 1..Len(results.all_pairs) :
          /\ j < k
          /\ results.all_pairs[j].file1 = results.all_pairs[k].file1
          /\ results.all_pairs[j].file2 = results.all_pairs[k].file2
          /\ results.all_pairs[l].file1 = results.all_pairs[j].file1
          /\ results.all_pairs[l].file2 # results.all_pairs[j].file2

----------------------------------------------------------------------------
\* The 64-bit fingerprint repeats its lower half, checked under FnSpec.

\* C11: with the default width 64 every fingerprint has bit b equal to bit
\* b + 32 for 0 <= b < 32; so the Hamming distance of two 64-bit fingerprints
\* is even and simhash_similarity returns 1 - 2k/64 for some k in 0..32.
C11_UpperHalfRepeatsLower ==
    /\ (IsHashCall /\ call.bits = DefaultBits) =>
          \A b \in 0..31 : (b \in call.result) <=> ((b + 32) \in call.result)
    /\ IsSimhashCall =>
          /\ call.distance % 2 = 0
          /\ \E k \in 0..32 :
                /\ call.distance = 2 * k
                /\ call.result = [num |-> 64 - 2 * k, den |-> 64]

\* Two non-empty texts whose 64-bit fingerprints differ, but not in every bit.
C11_Witness ==
    /\ IsSimhashCall
    /\ call.a # <<>> /\ call.b # <<>>
    /\ call.distance > 0 /\ call.distance < 64
    /\ simhash_hash(call.a, DefaultBits) # {}
    /\ simhash_hash(call.b, DefaultBits) # {}

====
